---- MODULE Spec2Model ----
(***************************************************************************)
(* A model of sn_stylekit_theme_installer.py: the palette extractor, the   *)
(* variable mapper, the override merger, the artifact builder, the local   *)
(* CORS server and main.                                                   *)
(*                                                                         *)
(* Text is modelled character by character: a Python str is a sequence of  *)
(* one-character strings, S("abc") = <<"a", "b", "c">>.  A Python dict is  *)
(* the sequence of its items in insertion order, each [k |-> key, v |->    *)
(* value], with pairwise different keys.                                   *)
(***************************************************************************)
EXTENDS Integers, Sequences, FiniteSets, TLC

VARIABLES
    call,       \* pure-function harness: the function called and its arguments
    ret,        \* pure-function harness: what the call returned (NoRet before)
    pc,         \* main: the statement main is at
    args,       \* main: the parsed command line
    env,        \* main: the file system and the network main meets
    vars_map,   \* main: the local vars_map
    extra_css,  \* main: the local extra_css
    pal,        \* main: the local pal (empty while unbound)
    files,      \* main: the files written under the output directory
    stderr,     \* main: the diagnostics written to the error stream
    exit_code,  \* main: the value main returned (empty while running or raised)
    httpd,      \* serve_directory: the listening socket
    response    \* CORSRequestHandler: the last response sent

fnVars == <<call, ret>>
mainVars == <<pc, args, env, vars_map, extra_css, pal, files, stderr, exit_code, httpd, response>>
vars == <<call, ret, pc, args, env, vars_map, extra_css, pal, files, stderr, exit_code, httpd, response>>

---------------------------------------------------------------------------
(* Bounds of the model.                                                    *)

\* html sources are concatenations of at most MaxFrag fragments
MaxFrag == 2
\* --set is given at most MaxSet times
MaxSet == 2
\* mappings handed to build_theme_css alone hold at most MaxKeys items
MaxKeys == 3
\* a --cdn base URL ends in at most MaxSlash slashes
MaxSlash == 2

---------------------------------------------------------------------------
(* Python str.                                                             *)

S(str) == [i \in 1..Len(str) |-> SubSeq(str, i, i)]

Range(seq) == {seq[i] : i \in 1..Len(seq)}

\* the printable ASCII characters in code point order: 32 (space) to 95 (_),
\* and 97 (a) to 126 (~)
AsciiLow == S(" !\"#$%&'()*+,-./0123456789:;<=>?@ABCDEFGHIJKLMNOPQRSTUVWXYZ[\\]^_")
AsciiHigh == S("abcdefghijklmnopqrstuvwxyz{|}~")

\* ord(c), for every character a text of the model holds
Ord ==
    [c \in Range(AsciiLow) \cup Range(AsciiHigh) \cup {"\t", "\n", "\f", "\r"} |->
        CASE c = "\t" -> 9 [] c = "\n" -> 10 [] c = "\f" -> 12 [] c = "\r" -> 13
          [] c \in Range(AsciiLow) -> 31 + (CHOOSE i \in 1..Len(AsciiLow) : AsciiLow[i] = c)
          [] OTHER -> 96 + (CHOOSE i \in 1..Len(AsciiHigh) : AsciiHigh[i] = c)]

\* str.lower() on one character: A..Z are 32 below a..z
LowerChar ==
    [c \in DOMAIN Ord |->
        IF Ord[c] >= Ord["A"] /\ Ord[c] <= Ord["Z"] THEN AsciiHigh[Ord[c] - 64] ELSE c]

\* str.lower()
Lower(s) == [i \in 1..Len(s) |-> LowerChar[s[i]]]

\* what str.strip() removes and the regex class \s matches
Whitespace == {" ", "\t", "\n", "\r", "\f"}

RECURSIVE LStrip(_)
LStrip(s) == IF s # <<>> /\ Head(s) \in Whitespace THEN LStrip(Tail(s)) ELSE s

RECURSIVE RStrip(_)
RStrip(s) == IF s # <<>> /\ s[Len(s)] \in Whitespace
             THEN RStrip(SubSeq(s, 1, Len(s) - 1)) ELSE s

\* str.strip()
Strip(s) == RStrip(LStrip(s))

\* str.rstrip(ch) for a single character ch
RECURSIVE RStripChar(_, _)
RStripChar(s, ch) == IF s # <<>> /\ s[Len(s)] = ch
                     THEN RStripChar(SubSeq(s, 1, Len(s) - 1), ch) ELSE s

\* s < t in Python's str order (by code point, a proper prefix first)
RECURSIVE StrLess(_, _)
StrLess(s, t) ==
    IF t = <<>> THEN FALSE
    ELSE IF s = <<>> THEN TRUE
    ELSE IF Head(s) = Head(t) THEN StrLess(Tail(s), Tail(t))
    ELSE Ord[Head(s)] < Ord[Head(t)]

\* sep.join(parts)
RECURSIVE Join(_, _)
Join(sep, parts) ==
    IF parts = <<>> THEN <<>>
    ELSE IF Len(parts) = 1 THEN parts[1]
    ELSE LET h == Len(parts) \div 2
         IN Join(sep, SubSeq(parts, 1, h)) \o sep
            \o Join(sep, SubSeq(parts, h + 1, Len(parts)))

\* sub in s
Contains(s, sub) ==
    \/ sub = <<>>
    \/ \E i \in 1..(Len(s) - Len(sub) + 1) :
          s[i] = sub[1] /\ SubSeq(s, i, i + Len(sub) - 1) = sub

\* s.find(sub): the least index (from 1) where sub starts, 0 when there is none
Find(s, sub) ==
    IF Contains(s, sub)
    THEN CHOOSE i \in 1..(Len(s) - Len(sub) + 1) :
            /\ SubSeq(s, i, i + Len(sub) - 1) = sub
            /\ \A j \in 1..(i - 1) : SubSeq(s, j, j + Len(sub) - 1) # sub
    ELSE 0

---------------------------------------------------------------------------
(* Python dict and set.                                                    *)

Keys(d) == {d[i].k : i \in 1..Len(d)}

HasKey(d, key) == \E i \in 1..Len(d) : d[i].k = key

\* d[key], for a key of d
Get(d, key) == d[CHOOSE i \in 1..Len(d) : d[i].k = key].v

\* d[key] = val: in place for a key of d, appended for a new one
DictSet(d, key, val) ==
    IF HasKey(d, key)
    THEN [i \in 1..Len(d) |-> IF d[i].k = key THEN [k |-> key, v |-> val] ELSE d[i]]
    ELSE Append(d, [k |-> key, v |-> val])

\* d.update(e): a key of d keeps its place and takes the last value e gives
\* it; the new keys follow in the order e first names them
Update(d, e) ==
    LET last(key) == e[CHOOSE i \in 1..Len(e) :
                        e[i].k = key /\ \A j \in (i + 1)..Len(e) : e[j].k # key].v
        fresh == {i \in 1..Len(e) :
                    ~HasKey(d, e[i].k) /\ \A j \in 1..(i - 1) : e[j].k # e[i].k}
        nth == [i \in fresh |-> Cardinality({j \in fresh : j <= i})]
    IN [i \in 1..Len(d) |->
            IF HasKey(e, d[i].k) THEN [k |-> d[i].k, v |-> last(d[i].k)] ELSE d[i]]
       \o [r \in 1..Cardinality(fresh) |->
            LET i == CHOOSE x \in fresh : nth[x] = r
            IN [k |-> e[i].k, v |-> last(e[i].k)]]

\* a dict display: the items in writing order, a repeated key keeping its
\* first place and its last value
Dict(items) == Update(<<>>, items)

KV(key, val) == [k |-> key, v |-> val]

\* the orders a set can be iterated in (CPython's depends on the hash seed)
SetOrders(set) ==
    {o \in [1..Cardinality(set) -> set] : \A i, j \in DOMAIN o : i # j => o[i] # o[j]}

\* the order of key=str.lower / key=lambda s: s.lower()
LowerLess(s, t) == StrLess(Lower(s), Lower(t))

\* sorted(seq, key=str.lower): a stable sort (an item moves before another
\* only when its key is less), here by merging
RECURSIVE Merge(_, _)
Merge(a, b) ==
    IF a = <<>> THEN b
    ELSE IF b = <<>> THEN a
    ELSE IF LowerLess(Head(b), Head(a)) THEN <<Head(b)>> \o Merge(a, Tail(b))
    ELSE <<Head(a)>> \o Merge(Tail(a), b)

RECURSIVE Sorted(_)
Sorted(seq) ==
    IF Len(seq) <= 1 THEN seq
    ELSE LET h == Len(seq) \div 2
         IN Merge(Sorted(SubSeq(seq, 1, h)), Sorted(SubSeq(seq, h + 1, Len(seq))))

---------------------------------------------------------------------------
(* Palette extractor.                                                      *)

HexDigits == Range(S("0123456789abcdefABCDEF"))

\* HEX6_RE matches at index i: "#" and six hexadecimal digits
Hex6At(html, i) ==
    /\ i + 6 <= Len(html)
    /\ html[i] = "#"
    /\ \A j \in 1..6 : html[i + j] \in HexDigits

\* HEX6_RE.findall(html) from index i on: the matches from left to right, the
\* scan going on after the end of each match
RECURSIVE FindAllFrom(_, _)
FindAllFrom(html, i) ==
    IF i > Len(html) THEN <<>>
    ELSE IF Hex6At(html, i)
    THEN <<SubSeq(html, i, i + 6)>> \o FindAllFrom(html, i + 7)
    ELSE FindAllFrom(html, i + 1)

HEX6_RE(html) == FindAllFrom(html, 1)

\* the orders set(HEX6_RE.findall(html)) can be iterated in
HashOrders(html) == SetOrders(Range(HEX6_RE(html)))

\* the regular expression of extract_font_family_from_index matches at index
\* i: "font-family:" in any letter case, then \s*([^;]+); that is at least one
\* character other than ";" and then a ";"
FontAt(html, i) ==
    /\ i + 12 <= Len(html)
    /\ Lower(SubSeq(html, i, i + 11)) = S("font-family:")
    /\ html[i + 12] # ";"
    /\ \E j \in (i + 13)..Len(html) : html[j] = ";"

DefaultFont == S("-apple-system, BlinkMacSystemFont, 'Segoe UI', 'Roboto', 'Oxygen', 'Ubuntu', 'Cantarell', 'Fira Sans', 'Droid Sans', 'Helvetica Neue', sans-serif")

\* group 1 of the first match, stripped; stripping undoes what the greedy \s*
\* left to the group
extract_font_family_from_index(html) ==
    IF \E i \in 1..Len(html) : FontAt(html, i)
    THEN LET i == CHOOSE a \in 1..Len(html) :
                    FontAt(html, a) /\ \A b \in 1..(a - 1) : ~FontAt(html, b)
             j == CHOOSE a \in (i + 13)..Len(html) :
                    html[a] = ";" /\ \A b \in (i + 13)..(a - 1) : html[b] # ";"
         IN Strip(SubSeq(html, i + 12, j - 1))
    ELSE DefaultFont

\* order: the order the set of the matches happens to be iterated in
extract_hex_colors_from_index(html, order) == Sorted(order)

\* the colour slots of palette_from_index: pick(wanted, default) of each
PaletteSlots ==
    [
      background |-> [wanted |-> S("#0f1011"), default |-> S("#0f1011")],
      editor_background |-> [wanted |-> S("#0f1011"), default |-> S("#0f1011")],
      panel_background |-> [wanted |-> S("#1c1d1e"), default |-> S("#1c1d1e")],
      selection_background |-> [wanted |-> S("#28292b"), default |-> S("#28292b")],
      status_background |-> [wanted |-> S("#1c1d1e"), default |-> S("#1c1d1e")],
      header_background |-> [wanted |-> S("#1c1d1e"), default |-> S("#1c1d1e")],
      dim_border |-> [wanted |-> S("#28292b"), default |-> S("#28292b")],
      border |-> [wanted |-> S("#181a1b"), default |-> S("#181a1b")],
      success |-> [wanted |-> S("#2b9612"), default |-> S("#2b9612")],
      info |-> [wanted |-> S("#a464c2"), default |-> S("#a464c2")],
      comment |-> [wanted |-> S("#7c7c7c"), default |-> S("#7c7c7c")],
      accent |-> [wanted |-> S("#a464c2"), default |-> S("#a464c2")],
      link |-> [wanted |-> S("#a464c2"), default |-> S("#a464c2")],
      muted |-> [wanted |-> S("#999999"), default |-> S("#999999")],
      danger |-> [wanted |-> S("#f80324"), default |-> S("#f80324")],
      foreground |-> [wanted |-> S("#eeeeee"), default |-> S("#eeeeee")],
      light_foreground |-> [wanted |-> S("#ffffff"), default |-> S("#ffffff")],
      warning |-> [wanted |-> S("#cc8800"), default |-> S("#cc8800")]
    ]

\* pick taking a colour found in the source when there is one
pick_discovered(colors, wanted, default) ==
    IF Lower(wanted) \in colors THEN wanted
    ELSE IF colors # {} THEN CHOOSE c \in colors : TRUE
    ELSE default

pick(colors, wanted, default) == IF Lower(wanted) \in colors THEN wanted ELSE default

palette_from_index(html, order) ==
    LET colors == {Lower(c) : c \in Range(extract_hex_colors_from_index(html, order))}
    IN [slot \in DOMAIN PaletteSlots |->
            pick(colors, PaletteSlots[slot].wanted, PaletteSlots[slot].default)]
       @@ [font_family |-> extract_font_family_from_index(html)]

---------------------------------------------------------------------------
(* Variable mapper.                                                        *)

stylekit_vars_from_palette(p) ==
    LET bg == p.background
        fg == p.foreground
    IN Dict(<<
        KV(S("--background-color"), bg),
        KV(S("--foreground-color"), fg),
        KV(S("--highlight-color"), p.accent),
        KV(S("--border-color"), bg),
        KV(S("--sn-component-background-color"), S("transparent")),
        KV(S("--sn-component-foreground-color"), S("var(--foreground-color)")),
        KV(S("--sn-component-foreground-highlight-color"), S("var(--highlight-color)")),
        KV(S("--sn-component-inner-border-color"), S("var(--foreground-color)")),
        KV(S("--sn-component-outer-border-color"), S("transparent")),
        KV(S("--sn-stylekit-monospace-font"), S("'SFMono-Regular', Consolas, 'Liberation Mono', Menlo, 'Ubuntu Mono', 'Courier New', monospace")),
        KV(S("--sn-stylekit-sans-serif-font"), p.font_family),
        KV(S("--sn-stylekit-background-color"), S("var(--background-color)")),
        KV(S("--sn-stylekit-foreground-color"), S("var(--foreground-color)")),
        KV(S("--sn-stylekit-border-color"), p.border),
        KV(S("--sn-stylekit-contrast-background-color"), S("#000000")),
        KV(S("--sn-stylekit-contrast-foreground-color"), p.light_foreground),
        KV(S("--sn-stylekit-contrast-border-color"), S("#000000")),
        KV(S("--sn-stylekit-secondary-background-color"), S("var(--sn-stylekit-passive-color-4)")),
        KV(S("--sn-stylekit-secondary-foreground-color"), p.light_foreground),
        KV(S("--sn-stylekit-secondary-border-color"), S("#000000")),
        KV(S("--sn-stylekit-secondary-contrast-background-color"), S("#000000")),
        KV(S("--sn-stylekit-secondary-contrast-foreground-color"), p.light_foreground),
        KV(S("--sn-stylekit-secondary-contrast-border-color"), p.light_foreground),
        KV(S("--sn-stylekit-editor-background-color"), S("var(--sn-stylekit-background-color)")),
        KV(S("--sn-stylekit-editor-foreground-color"), S("var(--sn-stylekit-foreground-color)")),
        KV(S("--sn-stylekit-neutral-color"), p.comment),
        KV(S("--sn-stylekit-neutral-contrast-color"), p.light_foreground),
        KV(S("--sn-stylekit-info-color"), S("var(--highlight-color)")),
        KV(S("--sn-stylekit-info-contrast-color"), S("var(--foreground-color)")),
        KV(S("--sn-stylekit-success-color"), p.success),
        KV(S("--sn-stylekit-success-contrast-color"), p.light_foreground),
        KV(S("--sn-stylekit-warning-color"), p.warning),
        KV(S("--sn-stylekit-warning-contrast-color"), p.light_foreground),
        KV(S("--sn-stylekit-danger-color"), p.danger),
        KV(S("--sn-stylekit-danger-contrast-color"), p.light_foreground),
        KV(S("--sn-stylekit-shadow-color"), S("#000000")),
        KV(S("--sn-stylekit-paragraph-text-color"), p.light_foreground),
        KV(S("--sn-stylekit-input-placeholder-color"), p.comment),
        KV(S("--sn-stylekit-input-border-color"), p.border),
        KV(S("--sn-stylekit-scrollbar-thumb-color"), S("var(--sn-stylekit-info-color)")),
        KV(S("--sn-stylekit-scrollbar-track-border-color"), S("var(--border-color)")),
        KV(S("--sn-stylekit-general-border-radius"), S("2px")),
        KV(S("--sn-stylekit-menu-border"), S("1px solid #424242")),
        KV(S("--sn-stylekit-passive-color-0"), p.muted),
        KV(S("--sn-stylekit-passive-color-3"), p.selection_background),
        KV(S("--sn-stylekit-passive-color-4"), p.panel_background),
        KV(S("--sn-stylekit-passive-color-5"), p.header_background),
        KV(S("--sn-desktop-titlebar-bg-color"), S("var(--background-color)")),
        KV(S("--sn-desktop-titlebar-border-color"), S("var(--border-color)")),
        KV(S("--sn-desktop-titlebar-ui-color"), S("var(--foreground-color)")),
        KV(S("--sn-desktop-titlebar-ui-hover-color"), S("var(--highlight-color)")),
        KV(S("--sn-stylekit-accessory-tint-color-1"), p.info),
        KV(S("--sn-stylekit-accessory-tint-color-2"), p.danger),
        KV(S("--sn-stylekit-accessory-tint-color-3"), p.warning),
        KV(S("--sn-stylekit-accessory-tint-color-4"), p.accent),
        KV(S("--sn-stylekit-accessory-tint-color-5"), p.success),
        KV(S("--sn-stylekit-accessory-tint-color-6"), p.link)
    >>)

optional_overrides_from_palette(p) ==
    Dict(<<
        KV(S("--modal-background-color"), S("var(--sn-stylekit-background-color)")),
        KV(S("--editor-header-bar-background-color"), p.panel_background),
        KV(S("--editor-background-color"), S("var(--sn-stylekit-editor-background-color)")),
        KV(S("--editor-foreground-color"), S("var(--sn-stylekit-editor-foreground-color)")),
        KV(S("--editor-title-bar-border-bottom-color"), S("var(--sn-stylekit-border-color)")),
        KV(S("--editor-title-input-color"), S("var(--sn-stylekit-editor-foreground-color)")),
        KV(S("--editor-pane-background-color"), S("var(--sn-stylekit-background-color)")),
        KV(S("--editor-pane-editor-background-color"), S("var(--sn-stylekit-editor-background-color)")),
        KV(S("--editor-pane-editor-foreground-color"), S("var(--sn-stylekit-editor-foreground-color)")),
        KV(S("--editor-pane-component-stack-item-background-color"), S("var(--sn-stylekit-background-color)")),
        KV(S("--text-selection-color"), S("var(--sn-stylekit-info-contrast-color)")),
        KV(S("--text-selection-background-color"), S("var(--sn-stylekit-info-color)")),
        KV(S("--items-column-background-color"), S("var(--sn-stylekit-background-color)")),
        KV(S("--items-column-items-background-color"), S("var(--sn-stylekit-background-color)")),
        KV(S("--items-column-border-left-color"), S("var(--sn-stylekit-border-color)")),
        KV(S("--items-column-border-right-color"), S("var(--sn-stylekit-border-color)")),
        KV(S("--items-column-search-background-color"), S("var(--sn-stylekit-contrast-background-color)")),
        KV(S("--item-cell-selected-background-color"), S("var(--sn-stylekit-contrast-background-color)")),
        KV(S("--item-cell-selected-border-left-color"), S("var(--sn-stylekit-info-color)")),
        KV(S("--navigation-column-background-color"), S("var(--sn-stylekit-secondary-background-color)")),
        KV(S("--navigation-section-title-color"), S("var(--sn-stylekit-secondary-foreground-color)")),
        KV(S("--navigation-item-text-color"), S("var(--sn-stylekit-secondary-foreground-color)")),
        KV(S("--navigation-item-count-color"), S("var(--sn-stylekit-neutral-color)")),
        KV(S("--navigation-item-selected-background-color"), S("var(--background-color)")),
        KV(S("--normal-button-background-color"), p.header_background),
        KV(S("--panel-resizer-background-color"), S("var(--sn-stylekit-secondary-contrast-background-color)")),
        KV(S("--popover-border-color"), p.selection_background),
        KV(S("--separator-color"), p.selection_background),
        KV(S("--link-element-color"), p.link)
    >>)

---------------------------------------------------------------------------
(* Artifact builder.                                                       *)

\* Declarations without the sort: the keys in insertion order
DeclarationsUnsorted(vmap) ==
    [i \in 1..Len(vmap) |->
        S("  ") \o vmap[i].k \o S(": ") \o vmap[i].v \o S(";")]

\* f"  {k}: {v};" for each key in sorted(vars_map.keys(), key=str.lower)
Declarations(vmap) ==
    LET keys == Sorted([i \in 1..Len(vmap) |-> vmap[i].k])
    IN [i \in 1..Len(keys) |->
            S("  ") \o keys[i] \o S(": ") \o Get(vmap, keys[i]) \o S(";")]

build_theme_css(vmap, extra) ==
    LET lines == <<S(":root {")>> \o Declarations(vmap) \o <<S("}")>>
        more == IF Strip(extra) # <<>>
                THEN <<<<>>, RStrip(extra) \o S("\n")>>
                ELSE <<>>
    IN Join(S("\n"), lines \o more) \o S("\n")

\* str(n) of an int n >= 0
RECURSIVE Decimal(_)
Decimal(n) == IF n < 10 THEN <<S("0123456789")[n + 1]>>
              ELSE Decimal(n \div 10) \o <<S("0123456789")[(n % 10) + 1]>>

\* dock_icon of a ThemeMeta that has none
None == [none |-> "None"]

\* the fields of ThemeMeta that default
ThemeMeta(identifier, name, version, host, port, description, is_dark, cdn_base, marketing_url, dock_icon) ==
    [identifier |-> identifier, name |-> name, version |-> version,
     host |-> host, port |-> port, description |-> description,
     is_dark |-> is_dark, cdn_base |-> cdn_base,
     marketing_url |-> marketing_url, dock_icon |-> dock_icon,
     css_filename |-> S("theme.css"), ext_filename |-> S("ext.json")]

\* build_ext_json with ext_url set on both branches
build_ext_json_local_latest(meta) ==
    LET base == IF meta.cdn_base # <<>>
                THEN RStripChar(meta.cdn_base, "/")
                ELSE S("http://") \o meta.host \o S(":") \o Decimal(meta.port)
    IN [identifier |-> meta.identifier, name |-> meta.name,
        content_type |-> S("SN|Theme"), area |-> S("themes"),
        version |-> meta.version, description |-> meta.description,
        url |-> base \o S("/") \o meta.css_filename, isDark |-> meta.is_dark,
        latest_url |-> base \o S("/") \o meta.ext_filename]
       @@ (IF meta.marketing_url # <<>>
           THEN [marketing_url |-> meta.marketing_url] ELSE <<>>)
       @@ (IF meta.dock_icon # None THEN [dock_icon |-> meta.dock_icon] ELSE <<>>)

\* the dict build_ext_json returns, as a record: its keys are the fields
build_ext_json(meta) ==
    LET base == RStripChar(meta.cdn_base, "/")
        css_url == IF meta.cdn_base # <<>>
                   THEN base \o S("/") \o meta.css_filename
                   ELSE S("http://") \o meta.host \o S(":") \o Decimal(meta.port)
                        \o S("/") \o meta.css_filename
        ext_url == IF meta.cdn_base # <<>>
                   THEN base \o S("/") \o meta.ext_filename
                   ELSE <<>>
        result == [identifier |-> meta.identifier,
                   name |-> meta.name,
                   content_type |-> S("SN|Theme"),
                   area |-> S("themes"),
                   version |-> meta.version,
                   description |-> meta.description,
                   url |-> css_url,
                   isDark |-> meta.is_dark]
    IN result
       @@ (IF ext_url # <<>> THEN [latest_url |-> ext_url] ELSE <<>>)
       @@ (IF meta.marketing_url # <<>>
           THEN [marketing_url |-> meta.marketing_url] ELSE <<>>)
       @@ (IF meta.dock_icon # None THEN [dock_icon |-> meta.dock_icon] ELSE <<>>)

\* the keys of the manifest, in the order build_ext_json inserts them
ExtKeys == <<"identifier", "name", "content_type", "area", "version",
             "description", "url", "isDark", "latest_url", "marketing_url",
             "dock_icon">>

\* the keys of dock_icon, in the order main inserts them
IconKeys == <<"type", "background_color", "foreground_color", "border_color">>

\* json.dumps of a str: quoted, with the escapes of the characters a text holds
RECURSIVE JsonEscape(_)
JsonEscape(s) ==
    IF s = <<>> THEN <<>>
    ELSE (CASE Head(s) = "\"" -> S("\\\"")
            [] Head(s) = "\\" -> S("\\\\")
            [] Head(s) = "\n" -> S("\\n")
            [] Head(s) = "\r" -> S("\\r")
            [] Head(s) = "\t" -> S("\\t")
            [] Head(s) = "\f" -> S("\\f")
            [] OTHER -> <<Head(s)>>) \o JsonEscape(Tail(s))

JsonStr(s) == S("\"") \o JsonEscape(s) \o S("\"")

\* json.dumps(icon, indent=2) of the dock icon, nested one level deep
JsonIcon(icon) ==
    S("{\n")
    \o Join(S(",\n"), [i \in 1..Len(IconKeys) |->
            S("    ") \o JsonStr(S(IconKeys[i])) \o S(": ") \o JsonStr(icon[IconKeys[i]])])
    \o S("\n  }")

\* json.dumps(ext, indent=2)
json_dumps(ext) ==
    LET keys == SelectSeq(ExtKeys, LAMBDA key : key \in DOMAIN ext)
        value(key) == IF key = "isDark" THEN (IF ext[key] THEN S("true") ELSE S("false"))
                      ELSE IF key = "dock_icon" THEN JsonIcon(ext[key])
                      ELSE JsonStr(ext[key])
    IN S("{\n")
       \o Join(S(",\n"), [i \in 1..Len(keys) |->
               S("  ") \o JsonStr(S(keys[i])) \o S(": ") \o value(keys[i])])
       \o S("\n}")

---------------------------------------------------------------------------
(* Override merger.                                                        *)

\* how a call ended: it returned value, or it raised a ValueError with msg
Returned(value) == [raised |-> "", value |-> value]

ValueError(msg) == [raised |-> "ValueError", msg |-> msg]

\* the loop of parse_set_overrides without the test of the key
RECURSIVE ParseFromAnyKey(_, _, _)
ParseFromAnyKey(items, i, out) ==
    IF i > Len(items) THEN Returned(out)
    ELSE LET item == items[i]
             at == Find(item, S("="))
         IN IF at = 0
            THEN ValueError(S("--set expects KEY=VALUE, got: ") \o item)
            ELSE ParseFromAnyKey(items, i + 1,
                    DictSet(out, Strip(SubSeq(item, 1, at - 1)),
                                 Strip(SubSeq(item, at + 1, Len(item)))))

\* the body of the loop of parse_set_overrides, from item i on, out being the
\* dict built so far
RECURSIVE ParseFrom(_, _, _)
ParseFrom(items, i, out) ==
    IF i > Len(items) THEN Returned(out)
    ELSE LET item == items[i]
             at == Find(item, S("="))
             k == Strip(SubSeq(item, 1, at - 1))
             v == Strip(SubSeq(item, at + 1, Len(item)))
         IN IF at = 0
            THEN ValueError(S("--set expects KEY=VALUE, got: ") \o item)
            ELSE IF k = <<>>
            THEN ValueError(S("Empty KEY in --set: ") \o item)
            ELSE ParseFrom(items, i + 1, DictSet(out, k, v))

parse_set_overrides(items) == ParseFrom(items, 1, <<>>)

---------------------------------------------------------------------------
(* The functions called on their own: call holds the function and its      *)
(* arguments, ret how the call ended.                                      *)

\* ret while the call has not ended
NoRet == [raised |-> "pending"]

\* the pieces the html sources are made of
Fragments ==
    {S("#A464C2"), S("#0f1011"), S("#ABCDEF"), S("#abcdef"), S("#12345"),
     S("0"), S("g"), S("font-family: Mono ;"), S("FONT-FAMILY:;"),
     S("font-family: var(--mono);"),
     S("font-family:var(--sn-stylekit-sans-serif-font);")}

\* the concatenations of at most n fragments
RECURSIVE Concats(_)
Concats(n) ==
    IF n = 0 THEN {<<>>}
    ELSE LET shorter == Concats(n - 1)
         IN shorter \cup {t \o f : t \in shorter, f \in Fragments}

\* the sequences of at most n elements of set
RECURSIVE SeqsUpTo(_, _)
SeqsUpTo(set, n) ==
    IF n = 0 THEN {<<>>}
    ELSE LET shorter == SeqsUpTo(set, n - 1)
         IN shorter \cup {Append(q, x) : q \in shorter, x \in set}

\* the --set items tried
SetItems ==
    {S("--x-color=#112233"), S(" --x-color = #445566 "), S("k=a=b"), S("k="),
     S("novalue"), S("=v"), S(" \t=v")}

\* the keys and values of the mappings rendered on their own
CssKeys == {S("--a"), S("--A"), S("--b"), S("--B"), S("--ab")}
CssValues == {S("#111"), S("var(--a)")}
CssExtras == {<<>>, S(" \n"), S("a { color: red; }\n\n")}

\* the dicts of at most n items over CssKeys and CssValues, in every
\* insertion order
CssDicts(n) ==
    {d \in SeqsUpTo({KV(key, val) : key \in CssKeys, val \in CssValues}, n) :
        \A i, j \in 1..Len(d) : i # j => d[i].k # d[j].k}

\* base followed by n slashes
RECURSIVE Slashes(_, _)
Slashes(base, n) == IF n = 0 THEN base ELSE Slashes(base, n - 1) \o S("/")

\* the --cdn values tried: none, and a base or nothing ending in slashes
CdnBases ==
    {<<>>} \cup {Slashes(S("https://cdn.example/pkg"), n) : n \in 0..MaxSlash}
           \cup {Slashes(<<>>, n) : n \in 1..MaxSlash}

Icon == [type |-> S("circle"), background_color |-> S("#0f1011"),
         foreground_color |-> S("#a464c2"), border_color |-> S("#a464c2")]

Metas ==
    {ThemeMeta(S("lt.sarunas.emacs-org-mode-theme"), S("Emacs Org Mode"), S("1.0.0"),
               host, port, S("A \"dark\" theme"), is_dark, cdn, marketing, icon) :
        host \in {S("localhost"), S("127.0.0.1")},
        port \in {8001, 80},
        is_dark \in BOOLEAN,
        cdn \in CdnBases,
        marketing \in {<<>>, S("https://github.com/Grigaliunas/SN-Theme")},
        icon \in {None, Icon}}

Call_extract_hex_colors_from_index ==
    /\ call.fn = "extract_hex_colors_from_index"
    /\ ret = NoRet
    /\ \E order \in HashOrders(call.html) :
          ret' = Returned(extract_hex_colors_from_index(call.html, order))
    /\ UNCHANGED <<call, mainVars>>

Call_palette_from_index ==
    /\ call.fn = "palette_from_index"
    /\ ret = NoRet
    /\ \E order \in HashOrders(call.html) :
          ret' = Returned(palette_from_index(call.html, order))
    /\ UNCHANGED <<call, mainVars>>

Call_build_theme_css ==
    /\ call.fn = "build_theme_css"
    /\ ret = NoRet
    /\ ret' = Returned(build_theme_css(call.vars_map, call.extra_css))
    /\ UNCHANGED <<call, mainVars>>

Call_build_ext_json ==
    /\ call.fn = "build_ext_json"
    /\ ret = NoRet
    /\ ret' = Returned(build_ext_json(call.meta))
    /\ UNCHANGED <<call, mainVars>>

Call_parse_set_overrides ==
    /\ call.fn = "parse_set_overrides"
    /\ ret = NoRet
    /\ ret' = parse_set_overrides(call.items)
    /\ UNCHANGED <<call, mainVars>>

\* main is not running
MainIdle ==
    /\ pc = "idle"
    /\ args = <<>>
    /\ env = <<>>
    /\ vars_map = <<>>
    /\ extra_css = <<>>
    /\ pal = <<>>
    /\ files = <<>>
    /\ stderr = <<>>
    /\ exit_code = <<>>
    /\ httpd = "none"
    /\ response = <<>>

InitPalette ==
    /\ call \in [fn : {"extract_hex_colors_from_index", "palette_from_index"},
                 html : Concats(MaxFrag)]
    /\ ret = NoRet
    /\ MainIdle

NextPalette == Call_extract_hex_colors_from_index \/ Call_palette_from_index

SpecPalette == InitPalette /\ [][NextPalette]_vars

InitCss ==
    /\ call \in [fn : {"build_theme_css"}, vars_map : CssDicts(MaxKeys),
                 extra_css : CssExtras]
    /\ ret = NoRet
    /\ MainIdle

NextCss == Call_build_theme_css

SpecCss == InitCss /\ [][NextCss]_vars

InitExt ==
    /\ call \in [fn : {"build_ext_json"}, meta : Metas]
    /\ ret = NoRet
    /\ MainIdle

NextExt == Call_build_ext_json

SpecExt == InitExt /\ [][NextExt]_vars

InitSet ==
    /\ call \in [fn : {"parse_set_overrides"}, items : SeqsUpTo(SetItems, MaxSet)]
    /\ ret = NoRet
    /\ MainIdle

NextSet == Call_parse_set_overrides

SpecSet == InitSet /\ [][NextSet]_vars

---------------------------------------------------------------------------
(* Local server.                                                           *)

\* send_response(code): the status line and the headers every response has
send_response(code) ==
    [status |-> code, headers |-> <<<<"Server", "SimpleHTTP">>, <<"Date", "now">>>>]

send_header(r, keyword, value) == [r EXCEPT !.headers = Append(@, <<keyword, value>>)]

\* end_headers without the Access-Control-Allow-Methods header
end_headers_two(r) ==
    send_header(send_header(r, "Access-Control-Allow-Origin", "*"),
                "Access-Control-Allow-Headers", "*")

\* CORSRequestHandler.end_headers: the three headers, then the inherited
\* end_headers, which ends the header block and sends it
end_headers(r) ==
    send_header(
        send_header(
            send_header(r, "Access-Control-Allow-Origin", "*"),
            "Access-Control-Allow-Headers", "*"),
        "Access-Control-Allow-Methods", "GET, OPTIONS")

\* CORSRequestHandler.do_OPTIONS
do_OPTIONS == end_headers(send_response(200))

\* the inherited send_error(code): every error reply ends its headers with
\* self.end_headers()
send_error(code) ==
    end_headers(send_header(send_header(send_response(code),
        "Connection", "close"), "Content-Type", "text/html;charset=utf-8"))

\* the inherited do_GET and do_HEAD (send_head): the listing of the directory,
\* a file of the directory served, or 404
send_head(dir, path) ==
    IF path = S("/")
    THEN end_headers(send_header(send_response(200),
            "Content-type", "text/html; charset=utf-8"))
    ELSE IF HasKey(dir, Tail(path))
    THEN end_headers(send_header(send_header(send_response(200),
            "Content-type", "application/octet-stream"), "Last-Modified", "now"))
    ELSE send_error(404)

\* the handler on one request: do_<method> when the class has it, 501 when not
handle_one_request(dir, method, path) ==
    IF method = "OPTIONS" THEN do_OPTIONS
    ELSE IF method \in {"GET", "HEAD"} THEN send_head(dir, path)
    ELSE send_error(501)

---------------------------------------------------------------------------
(* main.                                                                   *)

\* exit_code once main has returned code
Exit(code) == <<code>>

\* a file that is not there, a file holding text, a file holding the JSON
\* object obj, a file whose text is no JSON
NoFile == [exists |-> FALSE]
TextFile(text) == [exists |-> TRUE, text |-> text]
JsonFile(obj) == [exists |-> TRUE, json |-> TRUE, obj |-> obj]
BadJsonFile == [exists |-> TRUE, json |-> FALSE]

\* the dock icon main builds from the palette
dock_icon_from_palette(p) ==
    [type |-> S("circle"), background_color |-> p.background,
     foreground_color |-> p.accent, border_color |-> p.info]

\* the extra_css main appends when it reads an index
extra_css_from_palette(p) ==
    S(".translucent-ui [role='dialog'] {\n")
    \o S("  --sn-stylekit-border-color: var(--sn-stylekit-passive-color-3);\n")
    \o S("}\n\n")
    \o S("a { color: ") \o p.link \o S("; }\n")

\* vars_map.update(source) with the map's own keys kept: only new keys are added
MergeSourceKeepsOld(vmap, source) ==
    Update(vmap, SelectSeq(source, LAMBDA item : ~HasKey(vmap, item.k)))

\* vars_map.update(source): the keys of source replace those of the map
MergeSource(vmap, source) == Update(vmap, source)

\* the optional variables assigned to the map instead of merged into it
PaletteVarsOptionalOnly(p, no_optional_overrides) ==
    IF no_optional_overrides
    THEN stylekit_vars_from_palette(p)
    ELSE optional_overrides_from_palette(p)

\* the variables main derives from the palette
PaletteVars(p, no_optional_overrides) ==
    IF no_optional_overrides
    THEN stylekit_vars_from_palette(p)
    ELSE MergeSource(stylekit_vars_from_palette(p), optional_overrides_from_palette(p))

\* meta = ThemeMeta(...)
MainMeta ==
    ThemeMeta(args.identifier, args.name, args.version, args.host, args.port,
              args.description, ~args.light, args.cdn, args.marketing_url,
              IF args.from_index # <<>> THEN dock_icon_from_palette(pal) ELSE None)

\* return code, after the diagnostic lines
Return(code, lines) ==
    /\ pc' = "returned"
    /\ exit_code' = Exit(code)
    /\ stderr' = stderr \o lines

\* an exception nothing catches leaves main
Raise ==
    /\ pc' = "raised"
    /\ UNCHANGED <<exit_code, stderr>>

\* out.mkdir(parents=True, exist_ok=True); vars_map = {}
MainStart ==
    /\ pc = "start"
    /\ env' = [env EXCEPT !.out_exists = TRUE]
    /\ vars_map' = <<>>
    /\ pc' = "vars"
    /\ UNCHANGED <<args, extra_css, pal, files, stderr, exit_code, httpd, response, fnVars>>

\* if args.vars: ...
LoadVars ==
    /\ pc = "vars"
    /\ IF args.vars = <<>>
       THEN pc' = "index" /\ UNCHANGED <<vars_map, exit_code, stderr>>
       ELSE IF ~env.vars_file.exists
       THEN /\ Return(2, <<S("[error] vars file not found: ") \o args.vars>>)
            /\ UNCHANGED vars_map
       ELSE IF ~env.vars_file.json
       THEN Raise /\ UNCHANGED vars_map
       ELSE /\ vars_map' = MergeSource(vars_map, env.vars_file.obj)
            /\ pc' = "index"
            /\ UNCHANGED <<exit_code, stderr>>
    /\ UNCHANGED <<args, env, extra_css, pal, files, httpd, response, fnVars>>

\* if args.from_index: ... else: extra_css = ""
LoadIndex ==
    /\ pc = "index"
    /\ IF args.from_index = <<>>
       THEN /\ extra_css' = <<>>
            /\ pc' = "set"
            /\ UNCHANGED <<vars_map, pal, exit_code, stderr>>
       ELSE IF ~env.index_file.exists
       THEN /\ Return(2, <<S("[error] index.html not found: ") \o args.from_index>>)
            /\ UNCHANGED <<vars_map, pal, extra_css>>
       ELSE /\ \E order \in HashOrders(env.index_file.text) :
                  \E p \in {palette_from_index(env.index_file.text, order)} :
                     /\ pal' = p
                     /\ vars_map' = MergeSource(vars_map,
                                        PaletteVars(p, args.no_optional_overrides))
                     /\ extra_css' = extra_css_from_palette(p)
            /\ pc' = "set"
            /\ UNCHANGED <<exit_code, stderr>>
    /\ UNCHANGED <<args, env, files, httpd, response, fnVars>>

\* try: vars_map.update(parse_set_overrides(args.set_overrides)) except ValueError
ApplySet ==
    /\ pc = "set"
    /\ LET parsed == parse_set_overrides(args.set_overrides)
       IN IF parsed.raised = "ValueError"
          THEN /\ Return(2, <<S("[error] ") \o parsed.msg>>)
               /\ UNCHANGED vars_map
          ELSE /\ vars_map' = MergeSource(vars_map, parsed.value)
               /\ pc' = "check"
               /\ UNCHANGED <<exit_code, stderr>>
    /\ UNCHANGED <<args, env, extra_css, pal, files, httpd, response, fnVars>>

\* main without the test for an empty vars_map
CheckEmptySkipped ==
    /\ pc = "check"
    /\ pc' = "write_css"
    /\ UNCHANGED <<args, env, vars_map, extra_css, pal, files, stderr, exit_code, httpd, response, fnVars>>

\* if not vars_map: ... return 2
CheckEmpty ==
    /\ pc = "check"
    /\ IF vars_map = <<>>
       THEN Return(2, <<S("[error] No variables generated. Use --from-index or --vars.")>>)
       ELSE pc' = "write_css" /\ UNCHANGED <<exit_code, stderr>>
    /\ UNCHANGED <<args, env, vars_map, extra_css, pal, files, httpd, response, fnVars>>

\* (out / meta.css_filename).write_text(theme_css)
WriteCss ==
    /\ pc = "write_css"
    /\ files' = DictSet(files, MainMeta.css_filename, build_theme_css(vars_map, extra_css))
    /\ pc' = "write_ext"
    /\ UNCHANGED <<args, env, vars_map, extra_css, pal, stderr, exit_code, httpd, response, fnVars>>

\* (out / meta.ext_filename).write_text(json.dumps(ext, indent=2) + "\n")
WriteExt ==
    /\ pc = "write_ext"
    /\ files' = DictSet(files, MainMeta.ext_filename,
                        json_dumps(build_ext_json(MainMeta)) \o S("\n"))
    /\ pc' = "serve"
    /\ UNCHANGED <<args, env, vars_map, extra_css, pal, stderr, exit_code, httpd, response, fnVars>>

\* if args.serve: serve_directory(...); return 0
Serve ==
    /\ pc = "serve"
    /\ IF args.serve
       THEN pc' = "bind" /\ UNCHANGED <<exit_code, stderr>>
       ELSE Return(0, <<>>)
    /\ UNCHANGED <<args, env, vars_map, extra_css, pal, files, httpd, response, fnVars>>

\* serve_directory: os.chdir(directory); httpd = ThreadingHTTPServer(...), which
\* raises OSError when the address cannot be bound
Bind ==
    /\ pc = "bind"
    /\ IF env.port_busy
       THEN Raise /\ UNCHANGED httpd
       ELSE /\ httpd' = "listening"
            /\ pc' = "serve_forever"
            /\ UNCHANGED <<exit_code, stderr>>
    /\ UNCHANGED <<args, env, vars_map, extra_css, pal, files, response, fnVars>>

Methods == {"GET", "HEAD", "OPTIONS", "POST"}

Paths == {S("/theme.css"), S("/missing.css")}

\* httpd.serve_forever() handles a request
HandleRequest ==
    /\ pc = "serve_forever"
    /\ \E method \in Methods, path \in Paths :
          response' = [method |-> method, path |-> path]
                      @@ handle_one_request(files, method, path)
    /\ UNCHANGED <<pc, args, env, vars_map, extra_css, pal, files, stderr, exit_code, httpd, fnVars>>

\* except KeyboardInterrupt: pass
Interrupt ==
    /\ pc = "serve_forever"
    /\ pc' = "finally"
    /\ UNCHANGED <<args, env, vars_map, extra_css, pal, files, stderr, exit_code, httpd, response, fnVars>>

\* serve_directory without the finally clause: the socket stays open
ServerCloseSkipped ==
    /\ pc = "finally"
    /\ pc' = "served"
    /\ UNCHANGED <<args, env, vars_map, extra_css, pal, files, stderr, exit_code, httpd, response, fnVars>>

\* finally: httpd.server_close()
ServerClose ==
    /\ pc = "finally"
    /\ httpd' = "closed"
    /\ pc' = "served"
    /\ UNCHANGED <<args, env, vars_map, extra_css, pal, files, stderr, exit_code, response, fnVars>>

\* return 0, after serve_directory
ReturnServed ==
    /\ pc = "served"
    /\ Return(0, <<>>)
    /\ UNCHANGED <<args, env, vars_map, extra_css, pal, files, httpd, response, fnVars>>

\* the JSON objects a --vars file holds
VarsObjects ==
    {<<>>,
     Dict(<<KV(S("--background-color"), S("#123456")), KV(S("--mine"), S("json"))>>)}

\* the text of the index read
IndexTexts == {S("b { color: #A464C2; font-family: Mono ; }")}

\* the --set items main is run with
MainSetItems ==
    {S("--background-color=#111111"), S(" --background-color = b=2 "),
     S("novalue"), S("=v")}

\* argparse's defaults, and the command lines tried
MainArgs ==
    {[vars |-> v, from_index |-> x, set_overrides |-> o, no_optional_overrides |-> n,
      cdn |-> c, serve |-> s, host |-> S("localhost"), port |-> 8001, light |-> FALSE,
      marketing_url |-> <<>>, name |-> S("Emacs Org Mode"),
      identifier |-> S("lt.sarunas.emacs-org-mode-theme"), version |-> S("1.0.0"),
      description |-> S("A dark theme based on the Standard Notes Focus dark palette")] :
        v \in {<<>>, S("vars.json")},
        x \in {<<>>, S("index.html")},
        o \in SeqsUpTo(MainSetItems, MaxSet),
        n \in BOOLEAN,
        c \in {<<>>},
        s \in BOOLEAN}

MainEnvs ==
    {[vars_file |-> v, index_file |-> x, port_busy |-> b, out_exists |-> FALSE] :
        v \in {NoFile, BadJsonFile} \cup {JsonFile(obj) : obj \in VarsObjects},
        x \in {NoFile} \cup {TextFile(text) : text \in IndexTexts},
        b \in BOOLEAN}

\* what is not read is not varied
Init ==
    /\ call = <<>>
    /\ ret = NoRet
    /\ pc = "start"
    /\ args \in MainArgs
    /\ env \in MainEnvs
    /\ args.vars = <<>> => env.vars_file = NoFile
    /\ args.from_index = <<>> => env.index_file = NoFile
    /\ (args.from_index = <<>> \/ ~env.index_file.exists) => ~args.no_optional_overrides
    /\ ~args.serve => ~env.port_busy
    /\ vars_map = <<>>
    /\ extra_css = <<>>
    /\ pal = <<>>
    /\ files = <<>>
    /\ stderr = <<>>
    /\ exit_code = <<>>
    /\ httpd = "none"
    /\ response = <<>>

Next ==
    \/ MainStart
    \/ LoadVars
    \/ LoadIndex
    \/ ApplySet
    \/ CheckEmpty
    \/ WriteCss
    \/ WriteExt
    \/ Serve
    \/ Bind
    \/ HandleRequest
    \/ Interrupt
    \/ ServerClose
    \/ ReturnServed

Spec == Init /\ [][Next]_vars

\* once the interrupt has ended serve_forever, the finally clause and the
\* return of main run: nothing they wait for is left
SpecFair == Spec /\ WF_vars(ServerClose) /\ WF_vars(ReturnServed)

---------------------------------------------------------------------------
(* The variable mapper on the palette of an index: pal is the palette read, *)
(* ret the mapping derived from it.                                        *)

\* pal = palette_from_index(...); stylekit_vars_from_palette(pal)
Call_stylekit_vars_from_palette ==
    /\ call.fn = "stylekit_vars_from_palette"
    /\ ret = NoRet
    /\ \E order \in HashOrders(call.html) :
          \E p \in {palette_from_index(call.html, order)} :
             /\ pal' = p
             /\ ret' = Returned(PaletteVars(p, TRUE))
    /\ UNCHANGED <<call, pc, args, env, vars_map, extra_css, files, stderr, exit_code, httpd, response>>

\* the same, then the update with optional_overrides_from_palette(pal)
Call_optional_overrides_from_palette ==
    /\ call.fn = "optional_overrides_from_palette"
    /\ ret = NoRet
    /\ \E order \in HashOrders(call.html) :
          \E p \in {palette_from_index(call.html, order)} :
             /\ pal' = p
             /\ ret' = Returned(PaletteVars(p, FALSE))
    /\ UNCHANGED <<call, pc, args, env, vars_map, extra_css, files, stderr, exit_code, httpd, response>>

InitVars ==
    /\ call \in [fn : {"stylekit_vars_from_palette", "optional_overrides_from_palette"},
                 html : Concats(MaxFrag)]
    /\ ret = NoRet
    /\ MainIdle

NextVars == Call_stylekit_vars_from_palette \/ Call_optional_overrides_from_palette

SpecVars == InitVars /\ [][NextVars]_vars

---------------------------------------------------------------------------
(* Properties of the functions called on their own.                        *)

\* text.split("\n")
SplitLines(text) ==
    LET breaks == {i \in 1..Len(text) : text[i] = "\n"}
        start(r) == IF r = 1 THEN 1
                    ELSE 1 + CHOOSE i \in breaks : Cardinality({j \in breaks : j <= i}) = r - 1
        stop(r) == IF r = Cardinality(breaks) + 1 THEN Len(text)
                   ELSE (CHOOSE i \in breaks : Cardinality({j \in breaks : j <= i}) = r) - 1
    IN [r \in 1..(Cardinality(breaks) + 1) |-> SubSeq(text, start(r), stop(r))]

\* the keys of d are pairwise different when compared case-insensitively
CaseDistinct(d) ==
    \A i, j \in 1..Len(d) : i # j => Lower(d[i].k) # Lower(d[j].k)

\* the stylesheet is one ":root" block of one declaration per item of d, in
\* case-insensitive key order
OneSortedBlock(css, d) ==
    LET lines == SplitLines(css)
        n == Len(d)
    IN /\ Len(lines) >= n + 2
       /\ lines[1] = S(":root {")
       /\ lines[n + 2] = S("}")
       /\ \A r \in 1..Len(lines) : r # 1 => lines[r] # S(":root {")
       /\ \E o \in SetOrders(Range(d)) :
             /\ \A i \in 1..n :
                   lines[i + 1] = S("  ") \o o[i].k \o S(": ") \o o[i].v \o S(";")
             /\ \A i \in 1..(n - 1) : ~LowerLess(o[i + 1].k, o[i].k)

CssDone == call.fn = "build_theme_css" /\ ret.raised = ""

\* C4, as first stated: for any mapping, keys that differ only in letter case
\* included, every insertion order of its items renders the same text
C4_AnyOrderSameText ==
    CssDone =>
        \A d \in SetOrders(Range(call.vars_map)) :
            build_theme_css(d, call.extra_css) = ret.value

\* C4: for a mapping whose keys are pairwise different when compared
\* case-insensitively, every insertion order of its items renders the same
\* text; and for every mapping the text is a single ":root" block of one
\* declaration per key in case-insensitive key order
C4_OrderIndependent ==
    CssDone =>
        /\ CaseDistinct(call.vars_map) =>
              \A d \in SetOrders(Range(call.vars_map)) :
                  build_theme_css(d, call.extra_css) = ret.value
        /\ OneSortedBlock(ret.value, call.vars_map)

\* a mapping of three keys inserted out of key order has been rendered
C4_Witness ==
    /\ CssDone
    /\ Len(call.vars_map) = 3
    /\ CaseDistinct(call.vars_map)
    /\ LowerLess(call.vars_map[2].k, call.vars_map[1].k)
    /\ call.extra_css # <<>>

ExtDone == call.fn = "build_ext_json" /\ ret.raised = ""

\* cdn is stem followed by slashes only, and stem does not end in a slash
StemOf(cdn, stem) ==
    /\ Len(stem) <= Len(cdn)
    /\ SubSeq(cdn, 1, Len(stem)) = stem
    /\ \A i \in (Len(stem) + 1)..Len(cdn) : cdn[i] = "/"
    /\ stem # <<>> => stem[Len(stem)] # "/"

\* the ports tried, as the URL spells them
PortText(port) == IF port = 8001 THEN S("8001") ELSE S("80")

\* without a hosting base URL: the local URL, and no latest_url
LocalManifest(meta, ext) ==
    /\ ext.url = S("http://") \o meta.host \o S(":") \o PortText(meta.port)
                 \o S("/theme.css")
    /\ "latest_url" \notin DOMAIN ext

\* C5, as first stated: with a hosting base URL, url is the base URL followed
\* by "/theme.css" and latest_url the base URL followed by "/ext.json"
C5_UrlIsBasePlusName ==
    ExtDone =>
        IF call.meta.cdn_base # <<>>
        THEN /\ ret.value.url = call.meta.cdn_base \o S("/theme.css")
             /\ "latest_url" \in DOMAIN ret.value
             /\ ret.value.latest_url = call.meta.cdn_base \o S("/ext.json")
        ELSE LocalManifest(call.meta, ret.value)

\* C5: with a hosting base URL, url is the base URL less its trailing slashes
\* followed by "/theme.css", and latest_url is present and is that followed by
\* "/ext.json"; without one, url is http://<host>:<port>/theme.css and
\* latest_url is absent; so latest_url is present exactly with a base URL
C5_ManifestUrls ==
    ExtDone =>
        /\ IF call.meta.cdn_base # <<>>
           THEN \E n \in 0..Len(call.meta.cdn_base) :
                   LET stem == SubSeq(call.meta.cdn_base, 1, n)
                   IN /\ StemOf(call.meta.cdn_base, stem)
                      /\ ret.value.url = stem \o S("/theme.css")
                      /\ "latest_url" \in DOMAIN ret.value
                      /\ ret.value.latest_url = stem \o S("/ext.json")
           ELSE LocalManifest(call.meta, ret.value)
        /\ ("latest_url" \in DOMAIN ret.value) <=> (call.meta.cdn_base # <<>>)

\* a manifest has been built for a base URL that ends in a slash
C5_Witness ==
    /\ ExtDone
    /\ Len(call.meta.cdn_base) > MaxSlash
    /\ call.meta.cdn_base[Len(call.meta.cdn_base)] = "/"
    /\ "latest_url" \in DOMAIN ret.value

PaletteDone == call.fn = "palette_from_index" /\ ret.raised = ""

\* the 6-digit hex colours the source holds, lower-cased: every place where
\* "#" is followed by six hexadecimal digits
ColoursIn(html) ==
    {Lower(SubSeq(html, i, i + 6)) : i \in {a \in 1..Len(html) : Hex6At(html, a)}}

\* C6: every colour slot holds its preferred constant when that constant is,
\* compared case-insensitively, among the 6-digit hex colours of the source,
\* and its default constant otherwise; so with no colour in the source every
\* slot holds its default, and no slot holds any other colour of the source
C6_SlotIsPreferredOrDefault ==
    PaletteDone =>
        \A slot \in DOMAIN PaletteSlots :
            /\ ret.value[slot] =
                  IF Lower(PaletteSlots[slot].wanted) \in ColoursIn(call.html)
                  THEN PaletteSlots[slot].wanted
                  ELSE PaletteSlots[slot].default
            /\ ColoursIn(call.html) = {} => ret.value[slot] = PaletteSlots[slot].default
            /\ ret.value[slot] \in {PaletteSlots[slot].wanted, PaletteSlots[slot].default}

\* a palette has been read from a source that spells the preferred accent in
\* capitals and holds a colour that is no slot's constant
C6_Witness ==
    /\ PaletteDone
    /\ Contains(call.html, S("#A464C2"))
    /\ S("#abcdef") \in ColoursIn(call.html)
    /\ ret.value.accent = S("#a464c2")

HexDone == call.fn = "extract_hex_colors_from_index" /\ ret.raised = ""

\* C10: no two colours of the result of extract_hex_colors_from_index are
\* equal when compared case-insensitively
C10_NoCaseDuplicates ==
    HexDone =>
        \A i, j \in 1..Len(ret.value) :
            i # j => Lower(ret.value[i]) # Lower(ret.value[j])

SetDone == call.fn = "parse_set_overrides" /\ ret.raised # "pending"

\* the place of the first "=" of an item that holds one
FirstEq(item) ==
    CHOOSE i \in 1..Len(item) : item[i] = "=" /\ \A j \in 1..(i - 1) : item[j] # "="

\* the key and the value an item with an "=" names
KeyOf(item) == Strip(SubSeq(item, 1, FirstEq(item) - 1))
ValueOf(item) == Strip(SubSeq(item, FirstEq(item) + 1, Len(item)))

NoEq(item) == "=" \notin Range(item)
Invalid(item) == NoEq(item) \/ KeyOf(item) = <<>>

\* C8: an item is split at its first "=" only; when an item is invalid the
\* call raises and returns no mapping: a parse error for a first invalid item
\* with no "=", an empty-key error for one whose key is empty once trimmed;
\* when none is, the mapping holds exactly the keys named, each with the
\* trimmed value, empty or not, of the last item naming it
C8_ParseSetOverrides ==
    SetDone =>
        LET items == call.items
            bad == {i \in 1..Len(items) : Invalid(items[i])}
        IN IF bad # {}
           THEN LET i == CHOOSE a \in bad : \A b \in bad : a <= b
                IN /\ ret.raised = "ValueError"
                   /\ "value" \notin DOMAIN ret
                   /\ ret.msg = IF NoEq(items[i])
                                THEN S("--set expects KEY=VALUE, got: ") \o items[i]
                                ELSE S("Empty KEY in --set: ") \o items[i]
           ELSE /\ ret.raised = ""
                /\ Keys(ret.value) = {KeyOf(items[i]) : i \in 1..Len(items)}
                /\ \A i, j \in 1..Len(ret.value) :
                      i # j => ret.value[i].k # ret.value[j].k
                /\ \A i \in 1..Len(items) :
                      (\A j \in (i + 1)..Len(items) : KeyOf(items[j]) # KeyOf(items[i]))
                          => Get(ret.value, KeyOf(items[i])) = ValueOf(items[i])

\* a mapping has been returned for two items naming one key, the last with an
\* empty value, the first with an "=" in its value
C8_Witness ==
    /\ SetDone
    /\ call.items = <<S("k=a=b"), S("k=")>>
    /\ ret.raised = ""
    /\ ret.value = <<KV(S("k"), <<>>)>>

VarsDone ==
    call.fn \in {"stylekit_vars_from_palette", "optional_overrides_from_palette"}
    /\ ret.raised = ""

\* the names value refers to: for every "var(" of value, the text up to the
\* next "," or ")", trimmed
RefsIn(value) ==
    LET opens == {i \in 1..(Len(value) - 3) :
                    value[i] = "v" /\ SubSeq(value, i, i + 3) = S("var(")}
        ends(i) == {j \in (i + 4)..Len(value) : value[j] \in {",", ")"}}
        stop(i) == IF ends(i) = {} THEN Len(value) + 1
                   ELSE CHOOSE j \in ends(i) : \A x \in ends(i) : j <= x
    IN {Strip(SubSeq(value, i + 4, stop(i) - 1)) : i \in opens}

\* every reference of the value of key names a key of d, and following the
\* references from key reaches literal values within fuel steps
RECURSIVE Resolves(_, _, _)
Resolves(d, key, fuel) ==
    /\ fuel > 0
    /\ HasKey(d, key)
    /\ \A name \in RefsIn(Get(d, key)) : Resolves(d, name, fuel - 1)

\* every reference held as a value of d names a key of d, and the references
\* from any key reach literal values: the reference graph has no cycle
ReferenceClosed(d) ==
    /\ \A i \in 1..Len(d) : \A name \in RefsIn(d[i].v) : HasKey(d, name)
    /\ \A i \in 1..Len(d) : Resolves(d, d[i].k, Len(d))

\* no slot of the palette holds a reference
LiteralPalette(p) == \A slot \in DOMAIN p : RefsIn(p[slot]) = {}

\* C11, as first stated: for every palette, the palette-derived mapping, with
\* or without the optional variables, is closed under its references and its
\* reference graph has no cycle
C11_EveryPaletteClosed ==
    VarsDone => ReferenceClosed(ret.value)

\* C11: for every palette no slot of which holds a "var(" reference, every
\* reference held as a value of the palette-derived mapping, with or without
\* the optional variables, names a key of that mapping, and following the
\* references from any key reaches a literal value: there is no cycle
C11_LiteralPaletteClosed ==
    (VarsDone /\ LiteralPalette(pal)) => ReferenceClosed(ret.value)

\* the mapping with the optional variables has been derived from a palette
\* with a font read from the index, and holds a chain of three references
C11_Witness ==
    /\ VarsDone
    /\ call.fn = "optional_overrides_from_palette"
    /\ pal.font_family = S("Mono")
    /\ LiteralPalette(pal)
    /\ Get(ret.value, S("--sn-stylekit-sans-serif-font")) = S("Mono")
    /\ Resolves(ret.value, S("--editor-background-color"), 4)
    /\ ~Resolves(ret.value, S("--editor-background-color"), 3)

---------------------------------------------------------------------------
(* Properties of main and of the server.                                   *)

\* the JSON mapping main was given, the empty one when it was given none
JsonSource ==
    IF args.vars # <<>> /\ env.vars_file.exists /\ env.vars_file.json
    THEN env.vars_file.obj ELSE <<>>

\* both files are written, so the index, if any, was read into pal
Written ==
    HasKey(files, S("theme.css")) /\ HasKey(files, S("ext.json"))

\* the palette-derived mapping of a run that has written its files
PaletteSource ==
    IF args.from_index # <<>>
    THEN PaletteVars(pal, args.no_optional_overrides) ELSE <<>>

\* the keys the --set items name
SetNamed == {KeyOf(args.set_overrides[i]) : i \in 1..Len(args.set_overrides)}

\* the stylesheet declares key with value
Declares(css, key, value) ==
    Contains(css, S("\n  ") \o key \o S(": ") \o value \o S(";\n"))

\* C1: a key the JSON mapping and the palette-derived mapping define with
\* different values, and no --set item names, is written to the stylesheet
\* with the value of the JSON mapping
C1_JsonBeatsPalette ==
    Written =>
        \A derived \in {PaletteSource} :
            \A i \in 1..Len(JsonSource) :
                LET key == JsonSource[i].k
                IN (/\ HasKey(derived, key)
                    /\ Get(derived, key) # JsonSource[i].v
                    /\ key \notin SetNamed)
                   => Declares(Get(files, S("theme.css")), key, JsonSource[i].v)

\* C2: in a run that writes its files, the keys of the final mapping are
\* exactly those of the JSON mapping, of the palette-derived mapping and of
\* the --set items, and a key a --set item names has the trimmed value of the
\* last --set item naming it, whatever the other two define for it
C2_KeysAreUnionAndSetWins ==
    Written =>
        /\ Keys(vars_map) = Keys(JsonSource) \cup Keys(PaletteSource) \cup SetNamed
        /\ \A i, j \in 1..Len(vars_map) : i # j => vars_map[i].k # vars_map[j].k
        /\ \A i \in 1..Len(args.set_overrides) :
              LET item == args.set_overrides[i]
              IN (\A j \in (i + 1)..Len(args.set_overrides) :
                      KeyOf(args.set_overrides[j]) # KeyOf(item))
                 => /\ Get(vars_map, KeyOf(item)) = ValueOf(item)
                    /\ Declares(Get(files, S("theme.css")), KeyOf(item), ValueOf(item))

\* a run wrote its files for a key that the JSON mapping, the palette and
\* two --set items with different values all define, and for a key only the
\* JSON mapping defines
C2_Witness ==
    /\ Written
    /\ HasKey(JsonSource, S("--background-color"))
    /\ HasKey(JsonSource, S("--mine"))
    /\ HasKey(PaletteSource, S("--background-color"))
    /\ args.set_overrides = <<S("--background-color=#111111"), S(" --background-color = b=2 ")>>
    /\ Get(vars_map, S("--background-color")) = S("b=2")

\* the input-resolution errors: a --vars or --from-index file that does not
\* exist, a --set item with no "=" or an empty key, no variable from any source
InputError ==
    \/ args.vars # <<>> /\ ~env.vars_file.exists
    \/ args.from_index # <<>> /\ ~env.index_file.exists
    \/ \E i \in 1..Len(args.set_overrides) : Invalid(args.set_overrides[i])
    \/ JsonSource = <<>> /\ args.from_index = <<>> /\ args.set_overrides = <<>>

\* C3: a run with an input-resolution error writes no file, and returns 2
\* when it returns; a run that returned 2 wrote no file; a run that wrote both
\* files and does not serve returns 0 when it returns
C3_ErrorsReturn2WriteNothing ==
    /\ exit_code = Exit(2) => files = <<>>
    /\ InputError => files = <<>>
    /\ (InputError /\ pc = "returned") => exit_code = Exit(2)
    /\ (Written /\ ~args.serve /\ pc = "returned") => exit_code = Exit(0)

\* a run returned 2 for a bad --set item after it had merged the JSON mapping
\* and the palette
C3_Witness ==
    /\ pc = "returned"
    /\ exit_code = Exit(2)
    /\ HasKey(vars_map, S("--mine"))
    /\ HasKey(vars_map, S("--link-element-color"))
    /\ files = <<>>

CorsHeaders ==
    {<<"Access-Control-Allow-Origin", "*">>,
     <<"Access-Control-Allow-Headers", "*">>,
     <<"Access-Control-Allow-Methods", "GET, OPTIONS">>}

\* C7: every response sent carries the three CORS headers, and the response
\* to an OPTIONS request has status 200 whatever its path
C7_EveryResponseHasCors ==
    "status" \in DOMAIN response =>
        /\ CorsHeaders \subseteq Range(response.headers)
        /\ response.method = "OPTIONS" => response.status = 200

\* an OPTIONS request for a file that is not there has been answered
C7_Witness ==
    /\ "status" \in DOMAIN response
    /\ response.method = "OPTIONS"
    /\ response.path = S("/missing.css")
    /\ response.status = 200

\* C9: the server listens only when --serve was given and both files are
\* written; serving ends only by the interrupt, and the socket stops
\* listening only in the finally clause; once interrupted the socket is
\* closed and main returns 0, and main never returns 0 after serving with the
\* socket still open
C9_ServeLifecycle ==
    /\ [](httpd # "none" => (args.serve /\ Written))
    /\ [][(pc = "serve_forever" /\ pc' # "serve_forever") => Interrupt]_vars
    /\ [][(httpd = "listening" /\ httpd' # "listening") => (pc = "finally" /\ httpd' = "closed")]_vars
    /\ []((pc \in {"served", "returned"} /\ args.serve /\ Written) => httpd = "closed")
    /\ (pc = "finally") ~> (httpd = "closed" /\ exit_code = Exit(0))

\* main returned 0 after it served a request and was interrupted
C9_Witness ==
    /\ pc = "returned"
    /\ exit_code = Exit(0)
    /\ httpd = "closed"
    /\ "status" \in DOMAIN response

====
